---- MODULE Spec2Model ----
(***************************************************************************)
(* Prime-field arithmetic backend of galois (src/galois/gfp.py): the       *)
(* module globals written by GFp.target, the per-class lookup tables built *)
(* by GFp._build_luts, and the calculate-mode element functions.           *)
(*                                                                         *)
(* Python integers are modelled as unbounded integers; tables are          *)
(* functions indexed from 0 as numpy arrays are; None is the empty table.  *)
(*                                                                         *)
(* numba compiles a function when it is decorated with a signature and     *)
(* treats the module globals the function reads as compile-time constants: *)
(* a compiled ufunc keeps the values ORDER and ALPHA had when target()     *)
(* compiled it (variable jit).                                             *)
(***************************************************************************)
EXTENDS Integers, FiniteSets, Sequences, TLC

VARIABLES
    field,          \* per class: the class attributes order and alpha
    CHARACTERISTIC, \* module global, gfp.py:8
    ORDER,          \* module global, gfp.py:9
    ALPHA,          \* module global, gfp.py:10
    ufunc_mode,     \* per class: cls.ufunc_mode
    ufunc_target,   \* per class: cls.ufunc_target
    _EXP,           \* per class: cls._EXP
    _LOG,           \* per class: cls._LOG
    _ZECH_LOG,      \* per class: cls._ZECH_LOG
    jit,            \* per class: the globals compiled into cls._numba_ufunc_*
    array,          \* an array object: its type and its elements
    last            \* the last call made and what it returned or raised

vars == <<field, CHARACTERISTIC, ORDER, ALPHA, ufunc_mode, ufunc_target,
          _EXP, _LOG, _ZECH_LOG, jit, array, last>>

-----------------------------------------------------------------------------
(* Bounds                                                                  *)

MaxOrder == 10      \* field orders are the primes up to MaxOrder
MaxExp == 6         \* exponents of power are drawn from -MaxExp..MaxExp
MaxPolyOrder == 5   \* largest field order of polynomials, arrays and subfields
MaxCoeffs == 3      \* most coefficients of an evaluated polynomial
MaxValues == 2      \* most evaluation points in one call
MaxSize == 2        \* most elements of an array
MaxEntry == 2       \* largest entry of a matrix given to a decomposition
MaxDegree == 3      \* largest extension degree m of GF(p^m)
MaxWideOrder == 37  \* largest field order given to the fixed-width build

-----------------------------------------------------------------------------
(* Field descriptors and the values of Python's None                       *)

Classes == {"A", "B"}

IsPrime(n) == n >= 2 /\ \A d \in 2..(n-1) : n % d # 0

Fields == {[order |-> p, alpha |-> g] : p \in 2..MaxOrder, g \in 1..MaxOrder}

PrimeFields == {f \in Fields : IsPrime(f.order) /\ f.alpha < f.order}

NoneInt == 0        \* CHARACTERISTIC = ORDER = ALPHA = None
NoneStr == "None"   \* ufunc_mode / ufunc_target not set yet
NoTable == <<>>     \* cls._EXP is None
NoJit == [ORDER |-> NoneInt, ALPHA |-> NoneInt]  \* nothing compiled yet
NoArray == [type |-> "None", data |-> <<>>]      \* no array object yet

Elements(c) == 0..(field[c].order - 1)

-----------------------------------------------------------------------------
(* GFp._build_luts                                                         *)

zeros(n) == [i \in 0..(n-1) |-> 0]

\* exp_log_loop with the guard of line 63 left out: LOG is also written for
\* i = order-1.
RECURSIVE exp_log_loop_unguarded(_, _, _, _, _)
exp_log_loop_unguarded(i, E, L, order, alpha) ==
    IF i >= order THEN <<E, L>>
    ELSE LET prod == E[i-1] * alpha
             e_i  == IF prod >= order THEN prod % order ELSE prod
             E2   == [E EXCEPT ![i] = e_i]
             L2   == [L EXCEPT ![e_i] = i]
         IN  exp_log_loop_unguarded(i + 1, E2, L2, order, alpha)

\* The loop of lines 53-64, from index i on; returns the pair <<EXP, LOG>>.
RECURSIVE exp_log_loop(_, _, _, _, _)
exp_log_loop(i, E, L, order, alpha) ==
    IF i >= order THEN <<E, L>>
    ELSE LET prod == E[i-1] * alpha
             e_i  == IF prod >= order THEN prod % order ELSE prod
             E2   == [E EXCEPT ![i] = e_i]
             L2   == IF i < order - 1 THEN [L EXCEPT ![e_i] = i] ELSE L
         IN  exp_log_loop(i + 1, E2, L2, order, alpha)

\* zech_log_loop adding 1 to the index i instead of to alpha^i.
zech_log_loop_index(E, L, order) ==
    [i \in 0..(order-1) |-> L[(1 + i) % order]]

zech_log_loop(E, L, order) ==
    [i \in 0..(order-1) |-> L[(1 + E[i]) % order]]

\* Only the first of the three assertions.
luts_asserts_first_only(E, L, order) ==
    E[order-1] = 1

\* The three assertions at the end of _build_luts.
luts_asserts(E, L, order) ==
    /\ E[order-1] = 1
    /\ Cardinality({E[i] : i \in 0..(order-2)}) = order - 1
    /\ Cardinality({L[i] : i \in 1..(order-1)}) = order - 1

\* the table left as the loop filled it, upper half zero
double_exp_skipped(E, order) == E

\* cls._EXP[order:2*order] = cls._EXP[1:1+order]
double_exp(E, order) ==
    [i \in 0..(2*order-1) |-> IF i >= order THEN E[i - order + 1] ELSE E[i]]

\* The tables _build_luts leaves in the class and whether it returned (ok)
\* or stopped at a failed assertion.
build_luts(order, alpha) ==
    LET E0 == [zeros(2*order) EXCEPT ![0] = 1]
        L0 == zeros(order)
        EL == exp_log_loop(1, E0, L0, order, alpha)
        E  == EL[1]
        L  == EL[2]
        Z  == zech_log_loop(E, L, order)
    IN  IF luts_asserts(E, L, order)
        THEN [ok |-> TRUE,  EXP |-> double_exp(E, order), LOG |-> L, ZECH_LOG |-> Z]
        ELSE [ok |-> FALSE, EXP |-> E, LOG |-> L, ZECH_LOG |-> Z]

-----------------------------------------------------------------------------
(* GFp.target                                                              *)

TargetArgs == {"cpu", "cuda", "tpu"}
ModeArgs == {"lookup", "calculate", "table"}
RebuildArgs == {"True", "False", "1"}      \* "1" is an int, not a bool

ValidTargets == {"cpu", "parallel", "cuda"}
ValidModes == {"lookup", "calculate"}
IsBool(r) == r \in {"True", "False"}

NoResult == -1      \* the call raised or returned None: there is no value

TargetReturn(c, err) ==
    [op |-> "target", cls |-> c, a |-> 0, b |-> 0, res |-> NoResult, err |-> err]

\* a lookup-mode call that builds whether or not tables exist
needs_build_ignores_existing(c, mode, rebuild) ==
    mode = "lookup"

\* if mode == "lookup": if cls._EXP is None or rebuild: cls._build_luts()
needs_build(c, mode, rebuild) ==
    mode = "lookup" /\ (_EXP[c] = NoTable \/ rebuild = "True")

target(c, tgt, mode, rebuild) ==
    /\ CHARACTERISTIC' = field[c].order
    /\ ORDER' = field[c].order
    /\ ALPHA' = field[c].alpha
    /\ UNCHANGED <<field, array>>
    /\ IF tgt \notin ValidTargets \/ mode \notin ValidModes \/ ~IsBool(rebuild)
       THEN /\ last' = TargetReturn(c, "ValueError")
            /\ UNCHANGED <<ufunc_mode, ufunc_target, _EXP, _LOG, _ZECH_LOG, jit>>
       ELSE /\ ufunc_mode' = [ufunc_mode EXCEPT ![c] = mode]
            /\ ufunc_target' = [ufunc_target EXCEPT ![c] = tgt]
            /\ jit' = IF mode = "calculate"
                      THEN [jit EXCEPT ![c] = [ORDER |-> ORDER', ALPHA |-> ALPHA']]
                      ELSE jit
            /\ IF needs_build(c, mode, rebuild)
               THEN LET t == build_luts(field[c].order, field[c].alpha)
                    IN  /\ _EXP' = [_EXP EXCEPT ![c] = t.EXP]
                        /\ _LOG' = [_LOG EXCEPT ![c] = t.LOG]
                        /\ _ZECH_LOG' = [_ZECH_LOG EXCEPT ![c] = t.ZECH_LOG]
                        /\ last' = TargetReturn(c, IF t.ok THEN "" ELSE "AssertionError")
               ELSE /\ UNCHANGED <<_EXP, _LOG, _ZECH_LOG>>
                    /\ last' = TargetReturn(c, "")

-----------------------------------------------------------------------------

(* Calculate mode: the functions of gfp.py:136-226. They read the module   *)
(* globals ORDER and ALPHA; G is the value of those globals in the         *)
(* compiled function. ADD_JIT, MULTIPLY_JIT and MULT_INV_JIT are add_,     *)
(* multiply_ and multiplicative_inverse_calculate compiled in the same     *)
(* target() call (gfp.py:116-118), hence with the same G.                  *)

add_calculate(G, a, b) == (a + b) % G.ORDER

\* subtract_calculate with the truncating remainder of C: negative for a < b.
subtract_calculate_truncated(G, a, b) ==
    IF a - b < 0 THEN -((b - a) % G.ORDER) ELSE (a - b) % G.ORDER

subtract_calculate(G, a, b) == (a - b) % G.ORDER

multiply_calculate(G, a, b) == (a * b) % G.ORDER

additive_inverse_calculate(G, a) == (-a) % G.ORDER

\* galois.algorithm.extended_euclidean_algorithm(a, b): the remainder
\* sequence r and the coefficient sequence s with s*a = r (mod b); returns
\* <<Bezout coefficient of a, gcd>>.
RECURSIVE euclid_loop(_, _, _, _)
euclid_loop(r0, r1, s0, s1) ==
    IF r1 = 0 THEN <<s0, r0>>
    ELSE euclid_loop(r1, r0 % r1, s1, s0 - (r0 \div r1) * s1)

extended_euclidean_algorithm(a, b) == euclid_loop(a, b, 1, 0)

multiplicative_inverse_calculate(G, a) ==
    LET a_inv == extended_euclidean_algorithm(a, G.ORDER)[1]
    IN  a_inv % G.ORDER

\* divide_calculate multiplying by b itself instead of by its inverse.
divide_calculate_no_inverse(G, a, b) ==
    IF a = 0 \/ b = 0 THEN 0
    ELSE multiply_calculate(G, a, b)

divide_calculate(G, a, b) ==
    IF a = 0 \/ b = 0 THEN 0
    ELSE LET b_inv == multiplicative_inverse_calculate(G, b)
         IN  multiply_calculate(G, a, b_inv)

abs(x) == IF x < 0 THEN -x ELSE x

\* power_loop returning the squaring part alone.
RECURSIVE power_loop_drops_m(_, _, _, _)
power_loop_drops_m(G, result_s, result_m, power) ==
    IF power > 1
    THEN IF power % 2 = 0
         THEN power_loop_drops_m(G, multiply_calculate(G, result_s, result_s), result_m, power \div 2)
         ELSE power_loop_drops_m(G, result_s, multiply_calculate(G, result_m, result_s), power - 1)
    ELSE result_s

\* The while loop of lines 191-199.
RECURSIVE power_loop(_, _, _, _)
power_loop(G, result_s, result_m, power) ==
    IF power > 1
    THEN IF power % 2 = 0
         THEN power_loop(G, multiply_calculate(G, result_s, result_s), result_m, power \div 2)
         ELSE power_loop(G, result_s, multiply_calculate(G, result_m, result_s), power - 1)
    ELSE multiply_calculate(G, result_m, result_s)

\* power_calculate that takes abs(power) without inverting the base.
power_calculate_no_inverse(G, a, power) ==
    IF power = 0 THEN 1
    ELSE power_loop(G, a, 1, abs(power))

power_calculate(G, a, power) ==
    IF power = 0 THEN 1
    ELSE IF power < 0
         THEN power_loop(G, multiplicative_inverse_calculate(G, a), 1, abs(power))
         ELSE power_loop(G, a, 1, power)

\* The for loop of lines 215-218, from index i on; a loop that runs out
\* leaves i at its last value G.ORDER-2.
RECURSIVE log_loop(_, _, _, _)
log_loop(G, i, result, beta) ==
    IF i >= G.ORDER - 1 THEN G.ORDER - 2
    ELSE IF result = beta THEN i
         ELSE log_loop(G, i + 1, multiply_calculate(G, result, G.ALPHA), beta)

\* log_calculate starting the search from alpha instead of from 1.
log_calculate_from_alpha(G, beta) == log_loop(G, 0, G.ALPHA, beta)

log_calculate(G, beta) == log_loop(G, 0, 1, beta)

\* The checks the array layer makes before it invokes the divide and power
\* ufuncs (the NOTEs of gfp.py:150 and gfp.py:181).
\* divide_raises letting 0 / 0 through.
divide_raises_nonzero_dividend(a, b) == b = 0 /\ a # 0

divide_raises(a, b) == b = 0

\* power_raises that never raises.
power_raises_never(a, power) == FALSE

power_raises(a, power) == a = 0 /\ power < 0

-----------------------------------------------------------------------------
(* Element operations of a class whose ufuncs are the calculate ones       *)

Return(op, c, a, b, res) ==
    [op |-> op, cls |-> c, a |-> a, b |-> b, res |-> res, err |-> ""]

Raise(op, c, a, b, err) ==
    [op |-> op, cls |-> c, a |-> a, b |-> b, res |-> NoResult, err |-> err]

CalculateMode(c) == ufunc_mode[c] = "calculate"

\* kernel for functions that are not compiled and read the globals when
\* they are called.
kernel_reads_globals(c) == [ORDER |-> ORDER, ALPHA |-> ALPHA]

\* The globals the calculate ufuncs of class c were compiled with.
kernel(c) == jit[c]

Unchanged == UNCHANGED <<field, CHARACTERISTIC, ORDER, ALPHA, ufunc_mode,
                         ufunc_target, _EXP, _LOG, _ZECH_LOG, jit, array>>

add(c, a, b) ==
    /\ CalculateMode(c)
    /\ last' = Return("add", c, a, b, add_calculate(kernel(c), a, b))
    /\ Unchanged

subtract(c, a, b) ==
    /\ CalculateMode(c)
    /\ last' = Return("subtract", c, a, b, subtract_calculate(kernel(c), a, b))
    /\ Unchanged

multiply(c, a, b) ==
    /\ CalculateMode(c)
    /\ last' = Return("multiply", c, a, b, multiply_calculate(kernel(c), a, b))
    /\ Unchanged

negative(c, a) ==
    /\ CalculateMode(c)
    /\ last' = Return("negative", c, a, 0, additive_inverse_calculate(kernel(c), a))
    /\ Unchanged

divide(c, a, b) ==
    /\ CalculateMode(c)
    /\ last' = IF divide_raises(a, b)
               THEN Raise("divide", c, a, b, "ZeroDivisionError")
               ELSE Return("divide", c, a, b, divide_calculate(kernel(c), a, b))
    /\ Unchanged

power(c, a, e) ==
    /\ CalculateMode(c)
    /\ last' = IF power_raises(a, e)
               THEN Raise("power", c, a, e, "ZeroDivisionError")
               ELSE Return("power", c, a, e, power_calculate(kernel(c), a, e))
    /\ Unchanged

log(c, beta) ==
    /\ CalculateMode(c)
    /\ last' = Return("log", c, beta, 0, log_calculate(kernel(c), beta))
    /\ Unchanged

-----------------------------------------------------------------------------

NoCall == [op |-> "", cls |-> "A", a |-> 0, b |-> 0, res |-> NoResult, err |-> ""]

Init ==
    /\ field \in [Classes -> PrimeFields]
    /\ CHARACTERISTIC = NoneInt
    /\ ORDER = NoneInt
    /\ ALPHA = NoneInt
    /\ ufunc_mode = [c \in Classes |-> NoneStr]
    /\ ufunc_target = [c \in Classes |-> NoneStr]
    /\ _EXP = [c \in Classes |-> NoTable]
    /\ _LOG = [c \in Classes |-> NoTable]
    /\ _ZECH_LOG = [c \in Classes |-> NoTable]
    /\ jit = [c \in Classes |-> NoJit]
    /\ array = NoArray
    /\ last = NoCall

Next ==
    \E c \in Classes, tgt \in TargetArgs, mode \in ModeArgs, rebuild \in RebuildArgs :
        target(c, tgt, mode, rebuild)

Spec == Init /\ [][Next]_vars

\* The element operations in calculate mode: class A is any field, class B
\* is GF(3), and either class may be (re)targeted between the calls.
InitCalc ==
    /\ Init
    /\ field["B"] = [order |-> 3, alpha |-> 2]

NextCalc ==
    \/ \E c \in Classes : target(c, "cpu", "calculate", "False")
    \/ \E c \in Classes : \E a, b \in Elements(c) : add(c, a, b)
    \/ \E c \in Classes : \E a, b \in Elements(c) : subtract(c, a, b)
    \/ \E c \in Classes : \E a, b \in Elements(c) : multiply(c, a, b)
    \/ \E c \in Classes : \E a \in Elements(c) : negative(c, a)
    \/ \E c \in Classes : \E a, b \in Elements(c) : divide(c, a, b)
    \/ \E c \in Classes : \E a \in Elements(c), e \in (-MaxExp)..MaxExp : power(c, a, e)
    \/ \E c \in Classes : \E beta \in Elements(c) : log(c, beta)

SpecCalc == InitCalc /\ [][NextCalc]_vars

-----------------------------------------------------------------------------
(* What the results are compared with                                      *)

\* The backend globals hold the parameters of class c: c was the last class
\* targeted.
BoundTo(c) == ORDER = field[c].order /\ ALPHA = field[c].alpha

\* r is the residue of x modulo q: 0 <= r < q and q divides x - r.
IsResidue(r, x, q) ==
    /\ r \in 0..(q-1)
    /\ \E k \in (-q)..(q*q) : x = k * q + r

\* g^e mod q by e successive multiplications.
RECURSIVE ModPow(_, _, _)
ModPow(g, e, q) == IF e = 0 THEN 1 % q ELSE (g * ModPow(g, e - 1, q)) % q

\* g generates the multiplicative group of GF(q).
IsPrimitive(g, q) == {ModPow(g, i, q) : i \in 0..(q-2)} = 1..(q-1)

Returned(op) == last.op = op /\ last.err = ""

-----------------------------------------------------------------------------
(* Calculate-mode arithmetic                                               *)

\* C1: in calculate mode, for a field of order q and a, b in [0, q), add
\* returns the residue of a+b, subtract of a-b, multiply of a*b and negate
\* of -a modulo q, each in [0, q).
Thm_C1_ModularArithmetic ==
    LET q == field[last.cls].order
    IN    /\ Returned("add") => IsResidue(last.res, last.a + last.b, q)
          /\ Returned("subtract") => IsResidue(last.res, last.a - last.b, q)
          /\ Returned("multiply") => IsResidue(last.res, last.a * last.b, q)
          /\ Returned("negative") => IsResidue(last.res, -last.a, q)

\* a subtraction with a negative difference, reduced into [0, q)
Wit_C1_SubtractWraps ==
    /\ Returned("subtract") /\ BoundTo(last.cls)
    /\ last.a < last.b
    /\ last.res = field[last.cls].order + last.a - last.b

\* C2: over a prime field, divide(a, b) with b # 0 is multiply(a, inverse(b))
\* with inverse(b) the Bezout coefficient of b reduced mod order, so that
\* b * divide(1, b) = 1 and divide(0, b) = 0.
Thm_C2_DivideIsMultiplyByInverse ==
    LET q == field[last.cls].order
        b_inv == multiplicative_inverse_calculate(kernel(last.cls), last.b)
    IN  (Returned("divide") /\ last.b # 0) =>
          /\ IsResidue(b_inv, extended_euclidean_algorithm(last.b, q)[1], q)
          /\ IsResidue(1, last.b * b_inv, q)
          /\ last.res = multiply_calculate(kernel(last.cls), last.a, b_inv)
          /\ IsResidue(last.a, last.b * last.res, q)
          /\ last.a = 1 => multiply_calculate(kernel(last.cls), last.b, last.res) = 1
          /\ last.a = 0 => last.res = 0

\* divide(1, b) returned an inverse other than 1 and b itself
Wit_C2_Reciprocal ==
    /\ Returned("divide") /\ BoundTo(last.cls)
    /\ last.a = 1 /\ last.b > 1
    /\ last.res \notin {0, 1, last.b}

\* C3: divide(a, b) with b = 0 raises ZeroDivisionError for every a, a = 0
\* included, and returns no field element.
Thm_C3_DivideByZeroRaises ==
    (last.op = "divide" /\ last.b = 0) =>
        last.err = "ZeroDivisionError" /\ last.res = NoResult

\* 0 / 0 was attempted
Wit_C3_ZeroByZero ==
    last.op = "divide" /\ last.a = 0 /\ last.b = 0 /\ last.err # ""

\* C4: power(a, e) with e >= 0 is a^e mod order; power(a, 0) = 1, also for
\* a = 0; power(a, order-1) = 1 for a # 0.
Thm_C4_PowerIsModularExponentiation ==
    LET q == field[last.cls].order
    IN  (Returned("power") /\ last.b >= 0) =>
          /\ last.res = ModPow(last.a, last.b, q)
          /\ last.b = 0 => last.res = 1
          /\ (last.a # 0 /\ last.b = q - 1) => last.res = 1

\* a power with an odd exponent above 4, where the loop both squares and
\* multiplies, and whose result is none of 0, 1, a
Wit_C4_SquareAndMultiply ==
    /\ Returned("power") /\ BoundTo(last.cls)
    /\ last.b >= 5 /\ last.b % 2 = 1
    /\ last.res \notin {0, 1, last.a}

\* C5: for a # 0 and e >= 1, power(a, -e) = power(inverse(a), e), and
\* multiply(power(a, e), power(a, -e)) = 1.
Thm_C5_NegativeExponent ==
    (Returned("power") /\ last.a # 0 /\ last.b < 0) =>
        /\ last.res = power_calculate(kernel(last.cls), multiplicative_inverse_calculate(kernel(last.cls), last.a), -last.b)
        /\ multiply_calculate(kernel(last.cls), power_calculate(kernel(last.cls), last.a, -last.b), last.res) = 1

\* a negative power of an element that is not its own inverse
Wit_C5_NegativePower ==
    /\ Returned("power") /\ BoundTo(last.cls)
    /\ last.b < -1 /\ last.a > 1
    /\ multiplicative_inverse_calculate(kernel(last.cls), last.a) # last.a
    /\ last.res # 1

\* C6: power(0, e) with e < 0 raises ZeroDivisionError and returns no field
\* element.
Thm_C6_ZeroToNegativePowerRaises ==
    (last.op = "power" /\ last.a = 0 /\ last.b < 0) =>
        last.err = "ZeroDivisionError" /\ last.res = NoResult

\* 0 ** e with e < 0 was attempted
Wit_C6_ZeroNegativePower ==
    last.op = "power" /\ last.a = 0 /\ last.b < 0 /\ last.err # ""

\* C7: for a primitive alpha and beta # 0, log(beta) is the smallest g in
\* [0, order-1) with alpha^g mod order = beta; no other nonzero element has
\* the same log.
Thm_C7_LogIsLeastExponent ==
    LET q == field[last.cls].order
        alpha == field[last.cls].alpha
    IN  (Returned("log") /\ IsPrimitive(alpha, q) /\ last.a # 0) =>
          /\ last.res \in 0..(q-2)
          /\ ModPow(alpha, last.res, q) = last.a
          /\ \A g \in 0..(last.res - 1) : ModPow(alpha, g, q) # last.a
          /\ \A x \in 1..(q-1) : x # last.a => log_calculate(kernel(last.cls), x) # last.res

\* the log of an element found after at least three multiplications
Wit_C7_LogFound ==
    /\ Returned("log") /\ BoundTo(last.cls)
    /\ IsPrimitive(ALPHA, ORDER)
    /\ last.a # 0 /\ last.res >= 3

-----------------------------------------------------------------------------
(* Lookup tables                                                           *)

\* _build_luts has run to its end for class c: the class holds tables and
\* they pass the three assertions of lines 71-73.
BuildCompleted(c) ==
    /\ _EXP[c] # NoTable
    /\ luts_asserts(_EXP[c], _LOG[c], field[c].order)

\* The last call was a target() of c that returned with completed tables.
Wit_Built(c) ==
    /\ last.op = "target" /\ last.cls = c /\ last.err = ""
    /\ ufunc_mode[c] = "lookup"
    /\ BuildCompleted(c)

\* C8: after a completed build, EXP[0] = 1, EXP[order-1] = 1 and
\* EXP[i] = alpha^i mod order for every index i of the table, 0 <= i < 2*order.
Cex_C8_ExpIsPowerEverywhere ==
    \A c \in Classes :
        LET q == field[c].order
        IN  BuildCompleted(c) =>
              /\ _EXP[c][0] = 1
              /\ _EXP[c][q-1] = 1
              /\ \A i \in 0..(2*q-1) : _EXP[c][i] = ModPow(field[c].alpha, i, q)

\* C9: after a completed build, LOG[EXP[i]] = i for 0 <= i < order-1 and
\* EXP[LOG[x]] = x for 1 <= x < order.
Thm_C9_ExpLogInverse ==
    \A c \in Classes :
        LET q == field[c].order
        IN  BuildCompleted(c) =>
              /\ \A i \in 0..(q-2) : _LOG[c][_EXP[c][i]] = i
              /\ \A x \in 1..(q-1) : _EXP[c][_LOG[c][x]] = x

\* tables of a field of order at least 5 were just built
Wit_C9_TablesBuilt ==
    /\ Wit_Built("A")
    /\ field["A"].order >= 5
    /\ _LOG["A"][field["A"].order - 1] > 1

\* C10: after a completed build, ZECH_LOG[i] = LOG[(1 + alpha^i) mod order]
\* for 0 <= i < order, and alpha^ZECH_LOG[i] = 1 + alpha^i (mod order)
\* wherever 1 + alpha^i is not 0.
Thm_C10_ZechLog ==
    \A c \in Classes :
        LET q == field[c].order
            g == field[c].alpha
        IN  BuildCompleted(c) =>
              \A i \in 0..(q-1) :
                LET s == (1 + ModPow(g, i, q)) % q
                IN  /\ _ZECH_LOG[c][i] = _LOG[c][s]
                    /\ s # 0 => ModPow(g, _ZECH_LOG[c][i], q) = s

\* Zech logs of a field of order at least 5 were just built, with a nonzero
\* entry at an index other than 0
Wit_C10_ZechBuilt ==
    /\ Wit_Built("B")
    /\ field["B"].order >= 5
    /\ \E i \in 1..(field["B"].order - 2) : _ZECH_LOG["B"][i] > 1

-----------------------------------------------------------------------------
(* Table construction and primitivity                                      *)

\* Targeting with valid arguments only, with and without a rebuild.
NextBuild ==
    \E c \in Classes, mode \in ValidModes, rebuild \in {"True", "False"} :
        target(c, "cpu", mode, rebuild)

SpecBuild == Init /\ [][NextBuild]_vars

\* target(c, tgt, mode, rebuild) passes validation and runs _build_luts.
Builds(c, tgt, mode, rebuild) ==
    /\ tgt \in ValidTargets /\ mode \in ValidModes /\ IsBool(rebuild)
    /\ mode = "lookup"
    /\ (_EXP[c] = NoTable \/ rebuild = "True")

\* C11: a table build ends without an assertion failure exactly when alpha
\* generates the multiplicative group of the field; with any other alpha
\* one of the three assertions fails.
Thm_C11_BuildSucceedsIffPrimitive ==
    [][\A c \in Classes, rebuild \in {"True", "False"} :
          (Builds(c, "cpu", "lookup", rebuild) /\ target(c, "cpu", "lookup", rebuild)) =>
              /\ last'.err \in {"", "AssertionError"}
              /\ last'.err = "" <=> IsPrimitive(field[c].alpha, field[c].order)]_vars

\* a build with an alpha other than 1 that is not primitive got past the
\* first assertion (EXP[order-1] = 1) and was stopped by a later one
Wit_C11_LaterAssertionTrips ==
    /\ last.op = "target" /\ last.err = "AssertionError"
    /\ field[last.cls].alpha # 1
    /\ ~IsPrimitive(field[last.cls].alpha, field[last.cls].order)
    /\ _EXP[last.cls][field[last.cls].order - 1] = 1

\* C13: a target() call assigns the tables of its class exactly when the
\* mode is "lookup" and the class has no tables or rebuild is true, and
\* then they are the tables _build_luts computes; a lookup call without
\* rebuild on existing tables and every calculate call return normally
\* with _EXP, _LOG and _ZECH_LOG of every class unchanged.
Thm_C13_BuildCondition ==
    [][\A c \in Classes, mode \in ValidModes, rebuild \in {"True", "False"} :
          target(c, "cpu", mode, rebuild) =>
              LET built == mode = "lookup" /\ (_EXP[c] = NoTable \/ rebuild = "True")
                  t == build_luts(field[c].order, field[c].alpha)
              IN  /\ built => /\ _EXP'[c] = t.EXP
                              /\ _LOG'[c] = t.LOG
                              /\ _ZECH_LOG'[c] = t.ZECH_LOG
                              /\ _EXP'[c] # NoTable
                  /\ ~built => /\ UNCHANGED <<_EXP, _LOG, _ZECH_LOG>>
                               /\ last'.err = ""
                  /\ \A d \in Classes \ {c} : /\ _EXP'[d] = _EXP[d]
                                                /\ _LOG'[d] = _LOG[d]
                                                /\ _ZECH_LOG'[d] = _ZECH_LOG[d]]_vars

\* a class that holds tables was retargeted in calculate mode and still
\* holds them, while the other class, only ever targeted in calculate mode,
\* has none
Wit_C13_CalculateKeepsTables ==
    /\ last.op = "target" /\ last.err = ""
    /\ ufunc_mode[last.cls] = "calculate"
    /\ _EXP[last.cls] # NoTable
    /\ \E d \in Classes : ufunc_mode[d] = "calculate" /\ _EXP[d] = NoTable

\* C21: over any sequence of target() calls, failed builds included, every
\* lookup-mode target() call that returns without error leaves tables of
\* its class that satisfy the three post-conditions of the build; a
\* lookup call without rebuild after a failed build does not return
\* normally on the tables the failed build left.
Cex_C21_ReturnedLookupHasValidTables ==
    (last.op = "target" /\ last.err = "" /\ ufunc_mode[last.cls] = "lookup") =>
        BuildCompleted(last.cls)

\* C22: a target() call rejected with ValueError leaves the backend state
\* unchanged: the globals CHARACTERISTIC, ORDER and ALPHA, the class's
\* ufunc_mode and ufunc_target and the lookup tables keep the values they
\* had before the call.
Cex_C22_RejectedTargetChangesNothing ==
    [][(last'.op = "target" /\ last'.err = "ValueError") =>
          UNCHANGED <<CHARACTERISTIC, ORDER, ALPHA, ufunc_mode, ufunc_target,
                      _EXP, _LOG, _ZECH_LOG>>]_vars

-----------------------------------------------------------------------------
(* Lookup-mode multiplication                                              *)

\* multiply(a, b) = EXP[LOG[a] + LOG[b]], a zero operand giving 0
multiply_lookup(E, L, a, b) ==
    IF a = 0 \/ b = 0 THEN 0 ELSE E[L[a] + L[b]]

LookupMode(c) == ufunc_mode[c] = "lookup" /\ _EXP[c] # NoTable

multiply_in_lookup(c, a, b) ==
    /\ LookupMode(c)
    /\ last' = Return("multiply_lookup", c, a, b, multiply_lookup(_EXP[c], _LOG[c], a, b))
    /\ Unchanged

NextLookup ==
    \/ \E c \in Classes, rebuild \in {"True", "False"} : target(c, "cpu", "lookup", rebuild)
    \/ \E c \in Classes : \E a, b \in Elements(c) : multiply_in_lookup(c, a, b)

SpecLookup == InitCalc /\ [][NextLookup]_vars

\* C12: with tables from a completed build, for all nonzero a, b the index
\* LOG[a] + LOG[b] is an index of the doubled EXP table as it stands, with
\* no reduction, and EXP[LOG[a] + LOG[b]] = (a*b) mod order; a lookup
\* multiplication returns that value, and 0 when an operand is 0.
Thm_C12_LookupMultiply ==
    /\ \A c \in Classes : BuildCompleted(c) =>
          LET q == field[c].order
          IN  \A a, b \in 1..(q-1) :
                /\ _LOG[c][a] + _LOG[c][b] \in 0..(2*q-1)
                /\ _LOG[c][a] + _LOG[c][b] \in DOMAIN _EXP[c]
                /\ _EXP[c][_LOG[c][a] + _LOG[c][b]] = (a * b) % q
    /\ (Returned("multiply_lookup") /\ BuildCompleted(last.cls)) =>
          /\ IsResidue(last.res, last.a * last.b, field[last.cls].order)
          /\ (last.a = 0 \/ last.b = 0) => last.res = 0

\* a lookup multiplication read the upper half of the doubled table
Wit_C12_IndexInUpperHalf ==
    /\ Returned("multiply_lookup") /\ BuildCompleted(last.cls)
    /\ last.a # 0 /\ last.b # 0
    /\ _LOG[last.cls][last.a] + _LOG[last.cls][last.b] >= field[last.cls].order
    /\ last.res = (last.a * last.b) % field[last.cls].order

-----------------------------------------------------------------------------
(* Polynomial evaluation                                                   *)

\* Sequences over S of length 1..n.
SeqsUpTo(S, n) == UNION {[1..k -> S] : k \in 1..n}

\* the inner loop multiplying the previous coefficient, not the running
\* result, by x
RECURSIVE horner_loop_no_carry(_, _, _, _, _)
horner_loop_no_carry(G, coeffs, x, j, result) ==
    IF j >= Len(coeffs) THEN result
    ELSE horner_loop_no_carry(G, coeffs, x, j + 1,
                     add_calculate(G, coeffs[j+1], multiply_calculate(G, coeffs[j], x)))

\* the inner loop of poly_eval_calculate, j = 1 .. coeffs.size-1, where
\* coeffs[j] of the code is coeffs[j+1] of the sequence
RECURSIVE horner_loop(_, _, _, _, _)
horner_loop(G, coeffs, x, j, result) ==
    IF j >= Len(coeffs) THEN result
    ELSE horner_loop(G, coeffs, x, j + 1,
                     add_calculate(G, coeffs[j+1], multiply_calculate(G, result, x)))

\* evaluation that takes coeffs[0] for the constant term
poly_eval_calculate_ascending(G, coeffs, values) ==
    LET rev == [j \in 1..Len(coeffs) |-> coeffs[Len(coeffs) + 1 - j]]
    IN  [i \in 1..Len(values) |-> horner_loop(G, rev, values[i], 1, rev[1])]

\* results[i] = coeffs[0], then the inner loop, for every i
poly_eval_calculate(G, coeffs, values) ==
    [i \in 1..Len(values) |-> horner_loop(G, coeffs, values[i], 1, coeffs[1])]

poly_eval(c, coeffs, values) ==
    /\ CalculateMode(c)
    /\ last' = Return("poly_eval", c, coeffs, values,
                      poly_eval_calculate(kernel(c), coeffs, values))
    /\ Unchanged

InitPoly ==
    /\ InitCalc
    /\ field["A"].order <= MaxPolyOrder
    /\ field["A"].alpha = field["A"].order - 1

\* One evaluation after each targeting.
NextPoly ==
    \/ \E c \in Classes : target(c, "cpu", "calculate", "False")
    \/ /\ last.op = "target"
       /\ \E c \in Classes :
            \E coeffs \in SeqsUpTo(Elements(c), MaxCoeffs), values \in SeqsUpTo(Elements(c), MaxValues) :
                poly_eval(c, coeffs, values)

SpecPoly == InitPoly /\ [][NextPoly]_vars

\* x^e over the integers.
RECURSIVE IntPow(_, _)
IntPow(x, e) == IF e = 0 THEN 1 ELSE x * IntPow(x, e - 1)

\* coeffs[1]*x^(n-1) + ... + coeffs[n] over the integers, n = Len(coeffs).
RECURSIVE PolySum(_, _, _)
PolySum(coeffs, x, j) ==
    IF j > Len(coeffs) THEN 0
    ELSE coeffs[j] * IntPow(x, Len(coeffs) - j) + PolySum(coeffs, x, j + 1)

\* C14: poly_eval_calculate evaluates by Horner's rule with coefficients[0]
\* the highest-degree coefficient: every result is the residue of
\* sum_j coeffs[j] * x^(n-1-j) at its own point x = values[i], and is what
\* a call with that single point returns.
Thm_C14_HornerHighestFirst ==
    Returned("poly_eval") =>
        LET q == field[last.cls].order
        IN  /\ DOMAIN last.res = DOMAIN last.b
            /\ \A i \in DOMAIN last.b :
                  /\ last.res[i] \in 0..(q-1)
                  /\ last.res[i] = PolySum(last.a, last.b[i], 1) % q
                  /\ last.res[i] = poly_eval_calculate(kernel(last.cls), last.a, <<last.b[i]>>)[1]

\* a polynomial of degree 2 that is not its own reversal, evaluated at two
\* different points with different results
Wit_C14_TwoPoints ==
    /\ Returned("poly_eval")
    /\ Len(last.a) = 3 /\ last.a[1] # last.a[3] /\ last.a[1] # 0
    /\ Len(last.b) = 2 /\ last.b[1] # last.b[2]
    /\ last.res[1] # last.res[2]
    /\ last.res[1] # PolySum(<<last.a[3], last.a[2], last.a[1]>>, last.b[1], 1) % field[last.cls].order

\* GF(31) with the primitive element 3.
GF31 == [order |-> 31, alpha |-> 3]

InitGF31 ==
    /\ field = [A |-> GF31, B |-> [order |-> 3, alpha |-> 2]]
    /\ CHARACTERISTIC = NoneInt
    /\ ORDER = NoneInt
    /\ ALPHA = NoneInt
    /\ ufunc_mode = [c \in Classes |-> NoneStr]
    /\ ufunc_target = [c \in Classes |-> NoneStr]
    /\ _EXP = [c \in Classes |-> NoTable]
    /\ _LOG = [c \in Classes |-> NoTable]
    /\ _ZECH_LOG = [c \in Classes |-> NoTable]
    /\ jit = [c \in Classes |-> NoJit]
    /\ array = NoArray
    /\ last = NoCall

\* GF(31) targeted in calculate mode, then one quadratic evaluated at one
\* point.
NextGF31 ==
    \/ target("A", "cpu", "calculate", "False")
    \/ /\ last.op = "target"
       /\ \E c0, c1, c2, x \in Elements("A") : poly_eval("A", <<c0, c1, c2>>, <<x>>)

SpecGF31 == InitGF31 /\ [][NextGF31]_vars

\* C15 as stated: for all c0, c1, c2, x in GF(31),
\* poly_eval([c0, c1, c2], x) = c0 + x*(c1 + x*c2) with the field's add and
\* multiply.
Cex_C15_LowestFirst ==
    (Returned("poly_eval") /\ field[last.cls] = GF31) =>
        LET G == kernel(last.cls)
            x == last.b[1]
        IN  last.res[1] =
              add_calculate(G, last.a[1], multiply_calculate(G, x,
                  add_calculate(G, last.a[2], multiply_calculate(G, x, last.a[3]))))

\* C15: for all c0, c1, c2, x in GF(31),
\* poly_eval([c0, c1, c2], x) = c2 + x*(c1 + x*c0) with the field's add and
\* multiply, that is (c0*x^2 + c1*x + c2) mod 31: c0 is the coefficient
\* of the highest power.
Thm_C15_HighestFirst ==
    (Returned("poly_eval") /\ field[last.cls] = GF31) =>
        LET G == kernel(last.cls)
            x == last.b[1]
        IN  /\ last.res[1] =
                  add_calculate(G, last.a[3], multiply_calculate(G, x,
                      add_calculate(G, last.a[2], multiply_calculate(G, x, last.a[1]))))
            /\ last.res[1] = (last.a[1] * x * x + last.a[2] * x + last.a[3]) % 31

\* a quadratic over GF(31) whose first and last coefficients differ took a
\* value that the reversed coefficients do not give
Wit_C15_QuadraticOverGF31 ==
    /\ Returned("poly_eval") /\ field[last.cls] = GF31
    /\ last.a[1] # 0 /\ last.a[1] # last.a[3] /\ last.b[1] > 1
    /\ last.res[1] # (last.a[3] * last.b[1] * last.b[1] + last.a[2] * last.b[1] + last.a[1]) % 31

-----------------------------------------------------------------------------
(* Field arrays: construction, view casting, item assignment               *)

\* Integers offered as array contents: in and out of range of every field.
IntValues == (-1)..MaxPolyOrder

IntArrays == SeqsUpTo(IntValues, MaxSize)

\* no element of data is negative or >= cls.order
_check_array_values(c, data) ==
    \A i \in DOMAIN data : 0 <= data[i] /\ data[i] < field[c].order

\* every item of the list satisfies 0 <= item < cls.order
_check_iterable_types_and_values(c, data) ==
    \A i \in DOMAIN data : 0 <= data[i] /\ data[i] < field[c].order

\* an int, a list/tuple or an integer ndarray (kind), with its values
_check_array_like_object(c, kind, data) ==
    IF kind = "list" THEN _check_iterable_types_and_values(c, data)
    ELSE _check_array_values(c, data)

\* checks the values only when obj is not a GFArray
__array_finalize__(c, obj) ==
    obj.type \notin Classes => _check_array_values(c, obj.data)

ArrayCall(op, c, kind, data, err) ==
    [op |-> op, cls |-> c, a |-> data, b |-> kind, res |-> NoResult, err |-> err]

UnchangedBackend ==
    UNCHANGED <<field, CHARACTERISTIC, ORDER, ALPHA, ufunc_mode, ufunc_target,
                _EXP, _LOG, _ZECH_LOG, jit>>

\* np.array(data): a plain integer ndarray
np_array(data) ==
    /\ array' = [type |-> "ndarray", data |-> data]
    /\ last' = ArrayCall("np.array", "A", "list", data, "")
    /\ UnchangedBackend

\* cls(array_like): GFArray.__new__ -> _array
construct(c, kind, data) ==
    /\ IF _check_array_like_object(c, kind, data)
       THEN /\ array' = [type |-> c, data |-> data]
            /\ last' = ArrayCall("construct", c, kind, data, "")
       ELSE /\ UNCHANGED array
            /\ last' = ArrayCall("construct", c, kind, data, "ValueError")
    /\ UnchangedBackend

\* array.view(cls) of the current array, a plain ndarray or a field array
view(c) ==
    /\ array # NoArray
    /\ IF __array_finalize__(c, array)
       THEN /\ array' = [array EXCEPT !.type = c]
            /\ last' = ArrayCall("view", c, array.type, array.data, "")
       ELSE /\ UNCHANGED array
            /\ last' = ArrayCall("view", c, array.type, array.data, "ValueError")
    /\ UnchangedBackend

\* array[key] = value on a field array
__setitem__(key, value) ==
    /\ array.type \in Classes
    /\ key \in DOMAIN array.data
    /\ IF _check_array_like_object(array.type, "int", <<value>>)
       THEN /\ array' = [array EXCEPT !.data[key] = value]
            /\ last' = ArrayCall("setitem", array.type, "int", <<value>>, "")
       ELSE /\ UNCHANGED array
            /\ last' = ArrayCall("setitem", array.type, "int", <<value>>, "ValueError")
    /\ UnchangedBackend

\* One array object: created from Python values while there is none, then
\* converted, view cast and assigned to.
NextArray ==
    \/ array = NoArray /\ \E data \in IntArrays : np_array(data)
    \/ array = NoArray /\ \E c \in Classes, v \in IntValues : construct(c, "int", <<v>>)
    \/ array = NoArray /\ \E c \in Classes, data \in IntArrays : construct(c, "list", data)
    \/ \E c \in Classes : array.type = "ndarray" /\ construct(c, "ndarray", array.data)
    \/ \E c \in Classes : view(c)
    \/ \E key \in 1..MaxSize, v \in IntValues : __setitem__(key, v)

SpecArray == InitPoly /\ [][NextArray]_vars

\* C16: every element stored in a field array is in [0, order) after any
\* sequence of constructions, view casts and item assignments, and a
\* construction, view cast or item assignment given a value that is
\* negative or >= order raises ValueError.
Cex_C16_ElementsInRange ==
    /\ array.type \in Classes =>
          \A i \in DOMAIN array.data : array.data[i] \in 0..(field[array.type].order - 1)
    /\ (last.op \in {"construct", "view", "setitem"}
          /\ \E i \in DOMAIN last.a : last.a[i] \notin 0..(field[last.cls].order - 1)) =>
          last.err = "ValueError"

-----------------------------------------------------------------------------
(* LU and LUP decomposition over GF(5)                                     *)

\* GF(5) with the primitive element 2.
GF5 == [order |-> 5, alpha |-> 2]

\* Matrix dimensions.
Dims == 1..3

\* Square matrices, as rows of entries: every matrix over GF(5) below the
\* largest dimension, and the largest ones with entries up to MaxEntry.
Matrices ==
    UNION {[1..n -> [1..n -> IF n < 3 THEN 0..(GF5.order - 1) ELSE 0..MaxEntry]] : n \in Dims}

Zeros(n) == [r \in 1..n |-> [k \in 1..n |-> 0]]

Identity(n) == [r \in 1..n |-> [k \in 1..n |-> IF r = k THEN 1 ELSE 0]]

\* rows i and j exchanged
swap_rows(X, i, j) ==
    [r \in DOMAIN X |-> IF r = i THEN X[j] ELSE IF r = j THEN X[i] ELSE X[r]]

\* the multipliers of step i: l[r] = U[r][i] / U[i][i] for the rows r below i
multipliers(G, U, i) ==
    [r \in DOMAIN U |-> IF r > i THEN divide_calculate(G, U[r][i], U[i][i]) ELSE 0]

\* step i of the elimination: row r below i becomes U[r] - l[r] * U[i]
eliminate(G, U, i) ==
    LET l == multipliers(G, U, i)
    IN  [r \in DOMAIN U |->
            IF r > i
            THEN [k \in DOMAIN U |->
                    subtract_calculate(G, U[r][k], multiply_calculate(G, l[r], U[i][k]))]
            ELSE U[r]]

\* L with the unit diagonal entry and the multipliers of step i in column i
record_multipliers(G, L, U, i) ==
    LET l == multipliers(G, U, i)
    IN  [r \in DOMAIN L |->
            [k \in DOMAIN L |->
                IF k = i THEN (IF r = i THEN 1 ELSE IF r > i THEN l[r] ELSE L[r][k])
                ELSE L[r][k]]]

\* elimination that carries on over a zero pivot
RECURSIVE lu_loop_ignores_pivot(_, _, _, _)
lu_loop_ignores_pivot(G, i, L, U) ==
    IF i >= Len(U) THEN [ok |-> TRUE, L |-> [L EXCEPT ![Len(U)][Len(U)] = 1], U |-> U]
    ELSE lu_loop_ignores_pivot(G, i + 1, record_multipliers(G, L, U, i), eliminate(G, U, i))

\* elimination steps i, i+1, .., n-1 without row interchange; a zero
\* pivot ends the decomposition
RECURSIVE lu_loop(_, _, _, _)
lu_loop(G, i, L, U) ==
    IF i >= Len(U) THEN [ok |-> TRUE, L |-> [L EXCEPT ![Len(U)][Len(U)] = 1], U |-> U]
    ELSE IF U[i][i] = 0 THEN [ok |-> FALSE, L |-> L, U |-> U]
    ELSE lu_loop(G, i + 1, record_multipliers(G, L, U, i), eliminate(G, U, i))

lu_decompose(G, A) == lu_loop(G, 1, Zeros(Len(A)), A)

\* the last row at or below i with a nonzero entry in column i, 0 if none
pivot_row_last(U, i) ==
    LET rows == {r \in i..Len(U) : U[r][i] # 0}
    IN  IF rows = {} THEN 0 ELSE CHOOSE r \in rows : \A t \in rows : t <= r

\* the first row at or below i with a nonzero entry in column i, 0 if none
pivot_row(U, i) ==
    LET rows == {r \in i..Len(U) : U[r][i] # 0}
    IN  IF rows = {} THEN 0 ELSE CHOOSE r \in rows : \A t \in rows : r <= t

\* elimination steps i, i+1, .., n-1 with the pivot row swapped into place;
\* a column with no nonzero entry at or below row i is left as it is
RECURSIVE lup_loop(_, _, _, _, _)
lup_loop(G, i, L, U, P) ==
    IF i >= Len(U) THEN [L |-> [L EXCEPT ![Len(U)][Len(U)] = 1], U |-> U, P |-> P]
    ELSE LET j == pivot_row(U, i)
         IN  IF j = 0
             THEN lup_loop(G, i + 1, [L EXCEPT ![i][i] = 1], U, P)
             ELSE LET Us == swap_rows(U, i, j)
                      Ls == swap_rows(L, i, j)
                      Ps == swap_rows(P, i, j)
                  IN  lup_loop(G, i + 1, record_multipliers(G, Ls, Us, i), eliminate(G, Us, i), Ps)

lup_decompose(G, A) == lup_loop(G, 1, Zeros(Len(A)), A, Identity(Len(A)))

\* A.lu_decompose() on the current matrix
lu_decompose_call ==
    /\ array.type \in Classes /\ CalculateMode(array.type)
    /\ LET d == lu_decompose(kernel(array.type), array.data)
       IN  last' = IF d.ok
                   THEN Return("lu_decompose", array.type, array.data, 0, <<d.L, d.U>>)
                   ELSE Raise("lu_decompose", array.type, array.data, 0, "NoLUDecomposition")
    /\ Unchanged

\* A.lup_decompose() on the current matrix
lup_decompose_call ==
    /\ array.type \in Classes /\ CalculateMode(array.type)
    /\ LET d == lup_decompose(kernel(array.type), array.data)
       IN  last' = Return("lup_decompose", array.type, array.data, 0, <<d.L, d.U, d.P>>)
    /\ Unchanged

\* GF(5) targeted in calculate mode and holding a square matrix.
InitLinalg ==
    /\ field = [A |-> GF5, B |-> [order |-> 3, alpha |-> 2]]
    /\ CHARACTERISTIC = GF5.order
    /\ ORDER = GF5.order
    /\ ALPHA = GF5.alpha
    /\ ufunc_mode = [c \in Classes |-> IF c = "A" THEN "calculate" ELSE NoneStr]
    /\ ufunc_target = [c \in Classes |-> IF c = "A" THEN "cpu" ELSE NoneStr]
    /\ _EXP = [c \in Classes |-> NoTable]
    /\ _LOG = [c \in Classes |-> NoTable]
    /\ _ZECH_LOG = [c \in Classes |-> NoTable]
    /\ jit = [c \in Classes |-> IF c = "A" THEN [ORDER |-> GF5.order, ALPHA |-> GF5.alpha] ELSE NoJit]
    /\ array \in {[type |-> "A", data |-> M] : M \in Matrices}
    /\ last = NoCall

NextLinalg ==
    \/ lu_decompose_call
    \/ lup_decompose_call

SpecLinalg == InitLinalg /\ [][NextLinalg]_vars

\* X[r][1]*Y[1][c] + ... + X[r][k]*Y[k][c] over the integers.
RECURSIVE DotSum(_, _, _, _, _)
DotSum(X, Y, r, c, k) ==
    IF k = 0 THEN 0 ELSE X[r][k] * Y[k][c] + DotSum(X, Y, r, c, k - 1)

\* The matrix product reduced modulo q.
MatMul(X, Y, q) ==
    [r \in DOMAIN X |-> [c \in DOMAIN X |-> DotSum(X, Y, r, c, Len(X)) % q]]

\* The leading k-by-k block of M.
Leading(M, k) == [r \in 1..k |-> [c \in 1..k |-> M[r][c]]]

\* M without its first row and its column c.
Minor(M, c) ==
    [r \in 1..(Len(M)-1) |-> [k \in 1..(Len(M)-1) |-> M[r+1][IF k < c THEN k ELSE k+1]]]

\* The determinant over the integers, expanded along the first row
\* (columns c, c+1, ..).
RECURSIVE Det(_)
RECURSIVE DetFrom(_, _)
Det(M) == IF Len(M) = 1 THEN M[1][1] ELSE DetFrom(M, 1)
DetFrom(M, c) ==
    IF c > Len(M) THEN 0
    ELSE (IF c % 2 = 1 THEN 1 ELSE -1) * M[1][c] * Det(Minor(M, c)) + DetFrom(M, c + 1)

UnitLowerTriangular(L) ==
    \A r, c \in DOMAIN L : (r = c => L[r][c] = 1) /\ (r < c => L[r][c] = 0)

UpperTriangular(U) == \A r, c \in DOMAIN U : r > c => U[r][c] = 0

IsPermutationMatrix(P) ==
    /\ \A r, c \in DOMAIN P : P[r][c] \in {0, 1}
    /\ \A r \in DOMAIN P : Cardinality({c \in DOMAIN P : P[r][c] = 1}) = 1
    /\ \A c \in DOMAIN P : Cardinality({r \in DOMAIN P : P[r][c] = 1}) = 1

InField(X, q) == \A r, c \in DOMAIN X : X[r][c] \in 0..(q-1)

\* C18: when lu_decompose of a square matrix M over GF(5) succeeds, L is
\* unit lower-triangular, U is upper-triangular and L @ U = M in the field;
\* it fails with NoLUDecomposition exactly when an elimination step meets a
\* zero pivot, that is when a leading principal minor of order below n
\* vanishes in the field.
Thm_C18_LUDecomposition ==
    (last.op = "lu_decompose" /\ field[last.cls] = GF5) =>
        LET M == last.a
            n == Len(M)
        IN  /\ last.err \in {"", "NoLUDecomposition"}
            /\ last.err = "NoLUDecomposition" <=>
                  \E k \in 1..(n-1) : Det(Leading(M, k)) % 5 = 0
            /\ last.err = "" =>
                  LET L == last.res[1]
                      U == last.res[2]
                  IN  /\ InField(L, 5) /\ InField(U, 5)
                      /\ UnitLowerTriangular(L)
                      /\ UpperTriangular(U)
                      /\ MatMul(L, U, 5) = M

\* a 3-by-3 matrix with nonzero entries below the diagonal was decomposed
\* with two elimination steps that changed U
Wit_C18_ThreeByThree ==
    /\ Returned("lu_decompose") /\ field[last.cls] = GF5
    /\ Len(last.a) = 3
    /\ last.a[2][1] # 0 /\ last.a[3][1] # 0 /\ last.a[3][2] # 0
    /\ last.res[1][3][2] > 1
    /\ last.res[2][3][3] \notin {0, last.a[3][3]}

-----------------------------------------------------------------------------
(* Vector and vector: GF(p^m) elements and vectors over GF(p)              *)

\* Field classes GF(p^m) with their prime subfield's order and degree.
ExtensionFields ==
    {[order |-> IntPow(p, m), characteristic |-> p, degree |-> m] :
        p \in {n \in 2..MaxPolyOrder : IsPrime(n)}, m \in 1..MaxDegree}

\* the digit loop dividing array[..., i] itself, without subtracting x
RECURSIVE vector_loop_keeps_x(_, _, _, _, _, _)
vector_loop_keeps_x(order, degree, a, i, x, arr) ==
    IF i >= degree THEN arr
    ELSE LET q == a \div IntPow(order, degree - 1 - i)
         IN  vector_loop_keeps_x(order, degree, a, i + 1, x + q * IntPow(order, degree - 1 - i),
                         [arr EXCEPT ![i+1] = q])

\* for i in range(degree): q = (array[..., i] - x) // order**(degree-1-i);
\* array[..., i] = q; x += q * order**(degree-1-i), where array[..., i] is
\* the element a until it is overwritten, and index i of the code is i+1 of
\* the sequence
RECURSIVE vector_loop(_, _, _, _, _, _)
vector_loop(order, degree, a, i, x, arr) ==
    IF i >= degree THEN arr
    ELSE LET q == (arr[i+1] - x) \div IntPow(order, degree - 1 - i)
         IN  vector_loop(order, degree, a, i + 1, x + q * IntPow(order, degree - 1 - i),
                         [arr EXCEPT ![i+1] = q])

\* a.vector(): np.repeat(a, degree), the digit loop, then the conversion
\* into the prime subfield, which checks the range of every digit
vector(order, degree, a) ==
    LET arr == vector_loop(order, degree, a, 0, 0, [i \in 1..degree |-> a])
    IN  [ok |-> \A i \in 1..degree : 0 <= arr[i] /\ arr[i] < order, value |-> arr]

\* np.sum(array * order**degrees), degrees = degree-1, .., 0
RECURSIVE vector_sum(_, _, _)
vector_sum(order, arr, i) ==
    IF i > Len(arr) THEN 0
    ELSE arr[i] * IntPow(order, Len(arr) - i) + vector_sum(order, arr, i + 1)

\* cls.Vector(array): the digits are checked by the prime subfield, the
\* last dimension must be the degree, the sum is checked by cls
Vector(order, degree, arr) ==
    LET value == vector_sum(order, arr, 1)
    IN  [ok |-> /\ \A i \in DOMAIN arr : 0 <= arr[i] /\ arr[i] < order
                /\ Len(arr) = degree
                /\ 0 <= value /\ value < IntPow(order, degree),
         value |-> value]

Vector_call(c, v) ==
    /\ LET r == Vector(field[c].characteristic, field[c].degree, v)
       IN  IF r.ok
           THEN /\ array' = [type |-> c, data |-> <<r.value>>]
                /\ last' = Return("Vector", c, v, 0, r.value)
           ELSE /\ UNCHANGED array
                /\ last' = Raise("Vector", c, v, 0, "ValueError")
    /\ UnchangedBackend

vector_call ==
    /\ array.type \in Classes
    /\ LET c == array.type
           r == vector(field[c].characteristic, field[c].degree, array.data[1])
       IN  last' = IF r.ok
                   THEN Return("vector", c, array.data[1], 0, r.value)
                   ELSE Raise("vector", c, array.data[1], 0, "ValueError")
    /\ Unchanged

\* Class A is some GF(p^m), holding no array or one element.
InitVector ==
    /\ field \in [Classes -> ExtensionFields]
    /\ field["B"] = [order |-> 2, characteristic |-> 2, degree |-> 1]
    /\ CHARACTERISTIC = NoneInt
    /\ ORDER = NoneInt
    /\ ALPHA = NoneInt
    /\ ufunc_mode = [c \in Classes |-> NoneStr]
    /\ ufunc_target = [c \in Classes |-> NoneStr]
    /\ _EXP = [c \in Classes |-> NoTable]
    /\ _LOG = [c \in Classes |-> NoTable]
    /\ _ZECH_LOG = [c \in Classes |-> NoTable]
    /\ jit = [c \in Classes |-> NoJit]
    /\ array \in {NoArray} \cup {[type |-> "A", data |-> <<a>>] : a \in Elements("A")}
    /\ last = NoCall

\* Every length-m vector over GF(p), one vector that is too long and one
\* with a digit out of range.
VectorInputs(c) ==
    LET m == field[c].degree
        p == field[c].characteristic
    IN  [1..m -> 0..(p-1)] \cup {[i \in 1..(m+1) |-> 0], [i \in 1..m |-> p]}

NextVector ==
    \/ \E v \in VectorInputs("A") : Vector_call("A", v)
    \/ vector_call

SpecVector == InitVector /\ [][NextVector]_vars

\* The number with the base-p digits d, most significant first.
RECURSIVE FromDigits(_, _, _)
FromDigits(d, p, k) == IF k = 0 THEN 0 ELSE FromDigits(d, p, k - 1) * p + d[k]

\* C20: for every element a of GF(p^m), a.vector() is the length-m vector
\* of the base-p digits of a, most significant first and each in [0, p),
\* and Vector of it is a; for every length-m vector v over GF(p),
\* Vector(v) is an element of GF(p^m) whose vector() is v.
Thm_C20_VectorRoundTrip ==
    LET p == field[last.cls].characteristic
        m == field[last.cls].degree
    IN  /\ last.op = "vector" =>
              /\ last.err = ""
              /\ Len(last.res) = m
              /\ \A i \in 1..m : last.res[i] \in 0..(p-1)
              /\ FromDigits(last.res, p, m) = last.a
              /\ Vector(p, m, last.res) = [ok |-> TRUE, value |-> last.a]
        /\ (last.op = "Vector" /\ Len(last.a) = m /\ \A i \in 1..m : last.a[i] \in 0..(p-1)) =>
              /\ last.err = ""
              /\ last.res \in 0..(field[last.cls].order - 1)
              /\ last.res = FromDigits(last.a, p, m)
              /\ vector(p, m, last.res) = [ok |-> TRUE, value |-> last.a]

\* an element of a field of degree at least 2 and characteristic at least 3
\* was converted to digits that differ, the leading one above 1
Wit_C20_DigitsOfElement ==
    /\ Returned("vector")
    /\ field[last.cls].degree >= 2 /\ field[last.cls].characteristic >= 3
    /\ last.res[1] > 1 /\ last.res[2] \notin {0, last.res[1]}

-----------------------------------------------------------------------------
(* Backend parameters and the module globals                               *)

ArithmeticOps == {"add", "subtract", "multiply", "negative", "divide", "power", "log"}

\* Two classes retargeted in either mode, with the operations that read
\* ORDER (multiply) and ALPHA (log).
NextRetarget ==
    \/ \E c \in Classes, mode \in ValidModes : target(c, "cpu", mode, "False")
    \/ \E c \in Classes : \E a, b \in Elements(c) : multiply(c, a, b)
    \/ \E c \in Classes : \E a \in Elements(c) : log(c, a)

SpecRetarget == InitCalc /\ [][NextRetarget]_vars

\* C17: retargeting another class rewrites the module globals but not the
\* parameters of a class's own operations: whatever CHARACTERISTIC, ORDER
\* and ALPHA hold, every operation of a class reduces modulo the class's
\* order and uses the class's primitive element.
Thm_C17_ParametersNotShared ==
    LET c == last.cls
        q == field[c].order
        alpha == field[c].alpha
    IN  /\ \A k \in Classes : CalculateMode(k) =>
              kernel(k) = [ORDER |-> field[k].order, ALPHA |-> field[k].alpha]
        /\ (last.op \in ArithmeticOps /\ last.err = "" /\ ~BoundTo(c)) =>
              /\ last.res \in 0..(q-1)
              /\ last.op = "add" => IsResidue(last.res, last.a + last.b, q)
              /\ last.op = "subtract" => IsResidue(last.res, last.a - last.b, q)
              /\ last.op = "multiply" => IsResidue(last.res, last.a * last.b, q)
              /\ last.op = "negative" => IsResidue(last.res, -last.a, q)
              /\ last.op = "divide" => IsResidue(last.a, last.b * last.res, q)
              /\ (last.op = "power" /\ last.b >= 0) => last.res = ModPow(last.a, last.b, q)
              /\ (last.op = "power" /\ last.b < 0) =>
                    IsResidue(1, last.res * ModPow(last.a, -last.b, q), q)
              /\ (last.op = "log" /\ last.a # 0 /\ IsPrimitive(alpha, q)) =>
                    ModPow(alpha, last.res, q) = last.a

\* a class of order above 3 multiplied two elements while the globals held
\* the order 3 of the other class, and the product was reduced by its own
\* order
Wit_C17_OtherClassTargeted ==
    /\ Returned("multiply")
    /\ field[last.cls].order > ORDER /\ ORDER = 3
    /\ last.a * last.b >= field[last.cls].order
    /\ last.res # (last.a * last.b) % ORDER

-----------------------------------------------------------------------------
(* The table build in fixed-width integers                                 *)

\* Width of the table dtype in bits: np.int64, scaled from 64 to 6 bits so
\* that the orders that overflow can be enumerated.
DtypeBits == 6

\* np.iinfo(dtype).max
DtypeMax == IntPow(2, DtypeBits - 1) - 1

\* The value a signed DtypeBits-bit integer holds after an operation whose
\* exact result is x.
wrap(x) == ((x + IntPow(2, DtypeBits - 1)) % IntPow(2, DtypeBits)) - IntPow(2, DtypeBits - 1)

\* The loop of lines 53-64 in the table dtype: the product wraps around,
\* and a negative EXP[i] indexes LOG from its end or, below -order, raises
\* IndexError.
RECURSIVE exp_log_loop_dtype(_, _, _, _, _)
exp_log_loop_dtype(i, E, L, order, alpha) ==
    IF i >= order THEN [err |-> "", EXP |-> E, LOG |-> L]
    ELSE LET prod == wrap(E[i-1] * alpha)
             e_i  == IF prod >= order THEN prod % order ELSE prod
             E2   == [E EXCEPT ![i] = e_i]
         IN  IF i < order - 1
             THEN IF e_i < -order
                  THEN [err |-> "IndexError", EXP |-> E2, LOG |-> L]
                  ELSE exp_log_loop_dtype(i + 1, E2,
                           [L EXCEPT ![IF e_i < 0 THEN e_i + order ELSE e_i] = i], order, alpha)
             ELSE exp_log_loop_dtype(i + 1, E2, L, order, alpha)

\* _build_luts in the table dtype: the range check of lines 44-45, the
\* loops, the assertions and the doubling; set tells whether the class
\* attributes were assigned.
build_luts_dtype(order, alpha) ==
    IF order > DtypeMax
    THEN [err |-> "ValueError", set |-> FALSE, EXP |-> NoTable, LOG |-> NoTable, ZECH_LOG |-> NoTable]
    ELSE LET EL == exp_log_loop_dtype(1, [zeros(2*order) EXCEPT ![0] = 1], zeros(order), order, alpha)
             Z0 == zeros(order)
         IN  IF EL.err # ""
             THEN [err |-> EL.err, set |-> TRUE, EXP |-> EL.EXP, LOG |-> EL.LOG, ZECH_LOG |-> Z0]
             ELSE LET Z == zech_log_loop(EL.EXP, EL.LOG, order)
                  IN  IF luts_asserts(EL.EXP, EL.LOG, order)
                      THEN [err |-> "", set |-> TRUE, EXP |-> double_exp(EL.EXP, order),
                            LOG |-> EL.LOG, ZECH_LOG |-> Z]
                      ELSE [err |-> "AssertionError", set |-> TRUE, EXP |-> EL.EXP,
                            LOG |-> EL.LOG, ZECH_LOG |-> Z]

\* cls._build_luts()
_build_luts(c) ==
    /\ LET t == build_luts_dtype(field[c].order, field[c].alpha)
       IN  /\ _EXP' = IF t.set THEN [_EXP EXCEPT ![c] = t.EXP] ELSE _EXP
           /\ _LOG' = IF t.set THEN [_LOG EXCEPT ![c] = t.LOG] ELSE _LOG
           /\ _ZECH_LOG' = IF t.set THEN [_ZECH_LOG EXCEPT ![c] = t.ZECH_LOG] ELSE _ZECH_LOG
           /\ last' = [op |-> "_build_luts", cls |-> c, a |-> 0, b |-> 0,
                       res |-> NoResult, err |-> t.err]
    /\ UNCHANGED <<field, CHARACTERISTIC, ORDER, ALPHA, ufunc_mode, ufunc_target, jit, array>>

\* Prime fields with orders on both sides of the dtype's maximum.
WideFields ==
    {[order |-> p, alpha |-> g] : p \in {n \in 2..MaxWideOrder : IsPrime(n)}, g \in 1..MaxWideOrder}

InitDtype ==
    /\ field \in [Classes -> {f \in WideFields : f.alpha < f.order}]
    /\ field["B"] = [order |-> 3, alpha |-> 2]
    /\ CHARACTERISTIC = NoneInt
    /\ ORDER = NoneInt
    /\ ALPHA = NoneInt
    /\ ufunc_mode = [c \in Classes |-> NoneStr]
    /\ ufunc_target = [c \in Classes |-> NoneStr]
    /\ _EXP = [c \in Classes |-> NoTable]
    /\ _LOG = [c \in Classes |-> NoTable]
    /\ _ZECH_LOG = [c \in Classes |-> NoTable]
    /\ jit = [c \in Classes |-> NoJit]
    /\ array = NoArray
    /\ last = NoCall

NextDtype == \E c \in Classes : _build_luts(c)

SpecDtype == InitDtype /\ [][NextDtype]_vars

\* C23: for every field whose order passes the range check (order <= the
\* dtype's maximum) no product EXP[i-1] * alpha of the build leaves the
\* dtype's range, so every stored EXP[i], 0 <= i < order, is
\* alpha^i mod order; when order exceeds the maximum the build raises
\* ValueError and leaves the tables unset.
Cex_C23_NoWrapAround ==
    last.op = "_build_luts" =>
        LET c == last.cls
            q == field[c].order
        IN  IF q <= DtypeMax
            THEN /\ last.err \in {"", "AssertionError"}
                 /\ \A i \in 0..(q-1) : _EXP[c][i] = ModPow(field[c].alpha, i, q)
            ELSE last.err = "ValueError" /\ _EXP[c] = NoTable

====
